---------------------------- MODULE Spec2Model ----------------------------
(***************************************************************************)
(* Model of deploy.py (apk-release-deploy): the Dropbox publisher          *)
(* upload_to_dropbox with its three module-level request templates, and    *)
(* the helpers get_app, get_target_file_name and get_changes.              *)
(*                                                                         *)
(* A Python str is a sequence of one-character strings.  None is the       *)
(* one-element sequence <<"None">>, which no str equals.                   *)
(***************************************************************************)
EXTENDS Integers, Sequences, FiniteSets, TLC

VARIABLES
    pc,                   \* position inside upload_to_dropbox: "idle", "l74", "l81", "l91"
    target_file_name,     \* argument of the running (or last) invocation
    dropbox_folder,       \* argument of the running (or last) invocation
    source_exists,        \* whether open(source_file, 'rb') can succeed
    source_opened,        \* whether this invocation has opened source_file
    DROPBOX_UPLOAD_ARGS,  \* module-level template, mutated in place
    DROPBOX_SHARE_DATA,   \* module-level template, mutated in place
    DROPBOX_DELETE_DATA,  \* module-level template, mutated in place
    sent,                 \* requests posted by this invocation, in order
    share_url,            \* r.json()['url'] of the share response, None before
    ret,                  \* outcome of the invocation
    remote,               \* paths holding a file at the provider
    fn,                   \* which helper the pure-function specifications run
    fn_in,                \* the helper's arguments
    fn_out,               \* the helper's outcome
    fn_runs               \* how often the helper has been applied

vars == <<pc, target_file_name, dropbox_folder, source_exists, source_opened,
          DROPBOX_UPLOAD_ARGS, DROPBOX_SHARE_DATA, DROPBOX_DELETE_DATA,
          sent, share_url, ret, remote, fn, fn_in, fn_out, fn_runs>>

uploadVars == <<pc, target_file_name, dropbox_folder, source_exists, source_opened,
                DROPBOX_UPLOAD_ARGS, DROPBOX_SHARE_DATA, DROPBOX_DELETE_DATA,
                sent, share_url, ret, remote>>

fnVars == <<fn, fn_in, fn_out, fn_runs>>

-----------------------------------------------------------------------------
(* Bounds of the model *)

MaxUrlLen == 4
MaxChangeLen == 5
MaxNameLen == 4
MaxVersionLen == 2
MaxRuns == 2

-----------------------------------------------------------------------------
(* Strings *)

None == <<"None">>

\* All strings over alphabet A of length at most n.
StringsUpTo(A, n) == UNION {[1..k -> A] : k \in 0..n}

\* s[i:j] with 1-based inclusive bounds, empty when out of range.
Slice(s, i, j) == IF i > j THEN <<>> ELSE SubSeq(s, i, j)

\* Whether pat occurs in s at position i.
OccursAt(pat, s, i) ==
    /\ i >= 1
    /\ i + Len(pat) - 1 <= Len(s)
    /\ SubSeq(s, i, i + Len(pat) - 1) = pat

Occurrences(pat, s) == {i \in 1..Len(s) : OccursAt(pat, s, i)}

Contains(pat, s) == Occurrences(pat, s) # {}

EndsWith(s, suffix) ==
    /\ Len(suffix) <= Len(s)
    /\ SubSeq(s, Len(s) - Len(suffix) + 1, Len(s)) = suffix

\* Position of the first occurrence of pat in s at or after i, 0 when there is none.
RECURSIVE Find(_, _, _)
Find(pat, s, i) ==
    IF i + Len(pat) - 1 > Len(s) THEN 0
    ELSE IF OccursAt(pat, s, i) THEN i
    ELSE Find(pat, s, i + 1)

-----------------------------------------------------------------------------
(* upload_to_dropbox *)

\* requests.codes.ok
HTTP_OK == 200

\* Statuses of a refused request: 409 (path conflict or not found), 500.
FailureStatuses == {409, 500}

Folders == {<<"f">>, <<"g">>}
FileNames == {<<"a">>, <<"b">>}

\* '/{folder}/{file_name}'.format(...)
FormatPath(folder, file_name) == <<"/">> \o folder \o <<"/">> \o file_name

UrlAlphabet == {"d", "l", "="}
ExampleUrl == <<"h","t","t","p","s",":","/","/","x","/","s","/","a","b","c","?","d","l","=","0">>
Urls == StringsUpTo(UrlAlphabet, MaxUrlLen) \cup {ExampleUrl}

\* One match of 'dl=.*' starting at i: 'dl=' and the rest of the line ('.' does
\* not match a line break).  The position after the match.
RECURSIVE LineEnd(_, _)
LineEnd(s, i) ==
    IF i > Len(s) \/ s[i] = "\n" THEN i ELSE LineEnd(s, i + 1)

\* re.sub('dl=.', 'raw=1', s): the pattern without its star.
RECURSIVE ReSubDl_OneChar(_, _)
ReSubDl_OneChar(s, i) ==
    LET m == Find(<<"d","l","=">>, s, i) IN
    IF m = 0 \/ m + 3 > Len(s) \/ s[m + 3] = "\n" THEN Slice(s, i, Len(s))
    ELSE Slice(s, i, m - 1) \o <<"r","a","w","=","1">> \o ReSubDl_OneChar(s, m + 4)

\* re.sub('dl=.*', 'raw=1', s): every non-overlapping match, leftmost first.
RECURSIVE ReSubDl(_, _)
ReSubDl(s, i) ==
    LET m == Find(<<"d","l","=">>, s, i) IN
    IF m = 0 THEN Slice(s, i, Len(s))
    ELSE Slice(s, i, m - 1) \o <<"r","a","w","=","1">> \o ReSubDl(s, LineEnd(s, m + 3))

Running == [tag |-> "running", val |-> <<>>, exc |-> ""]
Returned(v) == [tag |-> "return", val |-> v, exc |-> ""]
Raised(e) == [tag |-> "raise", val |-> <<>>, exc |-> e]

Request(kind, path, status) == [kind |-> kind, path |-> path, status |-> status]

Kinds(log) == [i \in 1..Len(log) |-> log[i].kind]

\* What the provider can answer to a delete of path p.
DeleteStatuses(p) ==
    IF p \in remote THEN {HTTP_OK, 500} ELSE FailureStatuses

UploadStatuses == {HTTP_OK} \cup FailureStatuses

ShareStatuses == {HTTP_OK} \cup FailureStatuses

InitTemplates ==
    /\ DROPBOX_UPLOAD_ARGS = [path |-> None, mode |-> "overwrite",
                              autorename |-> TRUE, strict_conflict |-> TRUE]
    /\ DROPBOX_SHARE_DATA = [path |-> None, requested_visibility |-> "public"]
    /\ DROPBOX_DELETE_DATA = [path |-> None]

InitUpload ==
    /\ pc = "idle"
    /\ target_file_name = None
    /\ dropbox_folder = None
    /\ source_exists = TRUE
    /\ source_opened = FALSE
    /\ InitTemplates
    /\ sent = <<>>
    /\ share_url = None
    /\ ret = Running
    /\ remote = {}

\* Call, but the share template keeps the path of the previous invocation.
Call_StaleSharePath ==
    /\ pc = "idle"
    /\ \E folder \in Folders, file_name \in FileNames, exists \in BOOLEAN :
        LET dropbox_path == FormatPath(folder, file_name) IN
        /\ dropbox_folder' = folder
        /\ target_file_name' = file_name
        /\ source_exists' = exists
        /\ DROPBOX_UPLOAD_ARGS' = [DROPBOX_UPLOAD_ARGS EXCEPT !.path = dropbox_path]
        /\ DROPBOX_DELETE_DATA' = [DROPBOX_DELETE_DATA EXCEPT !.path = dropbox_path]
    /\ DROPBOX_SHARE_DATA' = DROPBOX_SHARE_DATA
    /\ source_opened' = FALSE
    /\ sent' = <<>>
    /\ share_url' = None
    /\ ret' = Running
    /\ pc' = "l74"
    /\ UNCHANGED <<remote, fnVars>>

\* Lines 52-67: entry, dropbox_path and the three templates' 'path'.
Call ==
    /\ pc = "idle"
    /\ \E folder \in Folders, file_name \in FileNames, exists \in BOOLEAN :
        LET dropbox_path == FormatPath(folder, file_name) IN
        /\ dropbox_folder' = folder
        /\ target_file_name' = file_name
        /\ source_exists' = exists
        /\ DROPBOX_UPLOAD_ARGS' = [DROPBOX_UPLOAD_ARGS EXCEPT !.path = dropbox_path]
        /\ DROPBOX_SHARE_DATA' = [DROPBOX_SHARE_DATA EXCEPT !.path = dropbox_path]
        /\ DROPBOX_DELETE_DATA' = [DROPBOX_DELETE_DATA EXCEPT !.path = dropbox_path]
    /\ source_opened' = FALSE
    /\ sent' = <<>>
    /\ share_url' = None
    /\ ret' = Running
    /\ pc' = "l74"
    /\ UNCHANGED <<remote, fnVars>>

\* DeleteRequest, but a delete that did not succeed ends the invocation.
DeleteRequest_ChecksStatus ==
    /\ pc = "l74"
    /\ \E status \in DeleteStatuses(DROPBOX_DELETE_DATA.path) :
        /\ sent' = Append(sent, Request("delete", DROPBOX_DELETE_DATA.path, status))
        /\ remote' = IF status = HTTP_OK THEN remote \ {DROPBOX_DELETE_DATA.path}
                     ELSE remote
        /\ IF status # HTTP_OK
           THEN ret' = Returned(None) /\ pc' = "idle"
           ELSE ret' = ret /\ pc' = "l81"
    /\ UNCHANGED <<target_file_name, dropbox_folder, source_exists, source_opened,
                   DROPBOX_UPLOAD_ARGS, DROPBOX_SHARE_DATA, DROPBOX_DELETE_DATA,
                   share_url, fnVars>>

\* Lines 69-74: the delete request; its response is dropped.
DeleteRequest ==
    /\ pc = "l74"
    /\ \E status \in DeleteStatuses(DROPBOX_DELETE_DATA.path) :
        /\ sent' = Append(sent, Request("delete", DROPBOX_DELETE_DATA.path, status))
        /\ remote' = IF status = HTTP_OK THEN remote \ {DROPBOX_DELETE_DATA.path}
                     ELSE remote
    /\ pc' = "l81"
    /\ UNCHANGED <<target_file_name, dropbox_folder, source_exists, source_opened,
                   DROPBOX_UPLOAD_ARGS, DROPBOX_SHARE_DATA, DROPBOX_DELETE_DATA,
                   share_url, ret, fnVars>>

\* Line 81 when open(source_file, 'rb') raises: the invocation ends there.
OpenFails ==
    /\ pc = "l81"
    /\ ~source_exists
    /\ ret' = Raised("IOError")
    /\ pc' = "idle"
    /\ UNCHANGED <<target_file_name, dropbox_folder, source_exists, source_opened,
                   DROPBOX_UPLOAD_ARGS, DROPBOX_SHARE_DATA, DROPBOX_DELETE_DATA,
                   sent, share_url, remote, fnVars>>

\* UploadRequest, but the status of the upload response is not tested.
UploadRequest_NoStatusCheck ==
    /\ pc = "l81"
    /\ source_exists
    /\ source_opened' = TRUE
    /\ \E status \in UploadStatuses :
        /\ sent' = Append(sent, Request("upload", DROPBOX_UPLOAD_ARGS.path, status))
        /\ remote' = IF status = HTTP_OK THEN remote \cup {DROPBOX_UPLOAD_ARGS.path}
                     ELSE remote
    /\ ret' = ret
    /\ pc' = "l91"
    /\ UNCHANGED <<target_file_name, dropbox_folder, source_exists,
                   DROPBOX_UPLOAD_ARGS, DROPBOX_SHARE_DATA, DROPBOX_DELETE_DATA,
                   share_url, fnVars>>

\* Lines 76-85: the file is opened, the upload request posted, its status tested.
UploadRequest ==
    /\ pc = "l81"
    /\ source_exists
    /\ source_opened' = TRUE
    /\ \E status \in UploadStatuses :
        /\ sent' = Append(sent, Request("upload", DROPBOX_UPLOAD_ARGS.path, status))
        /\ remote' = IF status = HTTP_OK THEN remote \cup {DROPBOX_UPLOAD_ARGS.path}
                     ELSE remote
        /\ IF status # HTTP_OK
           THEN ret' = Returned(None) /\ pc' = "idle"
           ELSE ret' = ret /\ pc' = "l91"
    /\ UNCHANGED <<target_file_name, dropbox_folder, source_exists,
                   DROPBOX_UPLOAD_ARGS, DROPBOX_SHARE_DATA, DROPBOX_DELETE_DATA,
                   share_url, fnVars>>

\* ShareRequest, but a failed share rolls the upload back with a second delete.
ShareRequest_Rollback ==
    /\ pc = "l91"
    /\ \E status \in ShareStatuses, url \in Urls :
        IF status # HTTP_OK
        THEN /\ sent' = sent \o <<Request("share", DROPBOX_SHARE_DATA.path, status),
                                  Request("delete", DROPBOX_DELETE_DATA.path, HTTP_OK)>>
             /\ remote' = remote \ {DROPBOX_DELETE_DATA.path}
             /\ ret' = Returned(None)
             /\ share_url' = share_url
        ELSE /\ sent' = Append(sent, Request("share", DROPBOX_SHARE_DATA.path, status))
             /\ remote' = remote
             /\ ret' = Returned(ReSubDl(url, 1))
             /\ share_url' = url
    /\ pc' = "idle"
    /\ UNCHANGED <<target_file_name, dropbox_folder, source_exists, source_opened,
                   DROPBOX_UPLOAD_ARGS, DROPBOX_SHARE_DATA, DROPBOX_DELETE_DATA,
                   fnVars>>

\* Lines 87-98: the share request, its status tested, the url rewritten.
ShareRequest ==
    /\ pc = "l91"
    /\ \E status \in ShareStatuses, url \in Urls :
        /\ sent' = Append(sent, Request("share", DROPBOX_SHARE_DATA.path, status))
        /\ IF status # HTTP_OK
           THEN ret' = Returned(None) /\ share_url' = share_url
           ELSE ret' = Returned(ReSubDl(url, 1)) /\ share_url' = url
    /\ pc' = "idle"
    /\ UNCHANGED <<target_file_name, dropbox_folder, source_exists, source_opened,
                   DROPBOX_UPLOAD_ARGS, DROPBOX_SHARE_DATA, DROPBOX_DELETE_DATA,
                   remote, fnVars>>

-----------------------------------------------------------------------------
(* get_changes *)

ChangeAlphabet == {"#", "\n", "a"}
ExampleChangelog == <<"#"," ","v","2","\n","F","i","x"," ","A","\n","#","#","\n",
                      "#"," ","v","1","\n","F","i","x"," ","B","\n">>
ChangeLogs == StringsUpTo(ChangeAlphabet, MaxChangeLen) \cup {ExampleChangelog}

\* change_log.split('##')[0]
FirstSegment(s) ==
    LET m == Find(<<"#","#">>, s, 1) IN
    IF m = 0 THEN s ELSE Slice(s, 1, m - 1)

\* s[:-1]
DropLast(s) == Slice(s, 1, Len(s) - 1)

\* re.sub('#.*\n?', '', s): the pattern without its '^' anchor.
RECURSIVE ReSubHeading_Unanchored(_, _)
ReSubHeading_Unanchored(s, i) ==
    IF i > Len(s) THEN <<>>
    ELSE IF s[i] = "#"
         THEN LET e == LineEnd(s, i) IN
              ReSubHeading_Unanchored(s, IF e <= Len(s) THEN e + 1 ELSE e)
         ELSE <<s[i]>> \o ReSubHeading_Unanchored(s, i + 1)

\* re.sub('^#.*\n?', '', s, flags=re.MULTILINE), scanning from position i:
\* '^' matches at the start of the string and after every line break.
RECURSIVE ReSubHeading(_, _)
ReSubHeading(s, i) ==
    IF i > Len(s) THEN <<>>
    ELSE IF (i = 1 \/ s[i - 1] = "\n") /\ s[i] = "#"
         THEN LET e == LineEnd(s, i) IN
              ReSubHeading(s, IF e <= Len(s) THEN e + 1 ELSE e)
         ELSE <<s[i]>> \o ReSubHeading(s, i + 1)

\* get_changes without the [:-1] slice.
get_changes_NoSlice(change_log) == ReSubHeading(FirstSegment(change_log), 1)

\* Lines 160-164, on the text read from the changelog file.
get_changes(change_log) == ReSubHeading(DropLast(FirstSegment(change_log)), 1)

InitChanges ==
    /\ fn = "get_changes"
    /\ fn_in \in ChangeLogs
    /\ fn_out = Running
    /\ fn_runs = 0

\* get_changes on the changelog file.
GetChanges ==
    /\ fn = "get_changes"
    /\ fn_runs = 0
    /\ fn_out' = Returned(get_changes(fn_in))
    /\ fn_runs' = 1
    /\ UNCHANGED <<fn, fn_in, uploadVars>>

\* get_changes on a changelog file that holds the previous run's result.
ReExtract ==
    /\ fn = "get_changes"
    /\ fn_runs >= 1
    /\ fn_runs < MaxRuns
    /\ fn_in' = fn_out.val
    /\ fn_out' = Returned(get_changes(fn_out.val))
    /\ fn_runs' = fn_runs + 1
    /\ UNCHANGED <<fn, uploadVars>>

-----------------------------------------------------------------------------
(* get_target_file_name *)

NameAlphabet == {"A", "p", "k", ".", " "}
VersionAlphabet == {"1", ".", " "}
AppNames == StringsUpTo(NameAlphabet, MaxNameLen)
AppVersions == StringsUpTo(VersionAlphabet, MaxVersionLen)

\* str.lower() on one character.
LowerChar(c) ==
    CASE c = "A" -> "a"
      [] c = "K" -> "k"
      [] c = "M" -> "m"
      [] c = "P" -> "p"
      [] OTHER -> c

\* str.lower()
Lower(s) == [i \in 1..Len(s) |-> LowerChar(s[i])]

\* s.replace(old, new) for a one-character old.
RECURSIVE Replace(_, _, _)
Replace(s, old, new) ==
    IF s = <<>> THEN <<>>
    ELSE (IF Head(s) = old THEN new ELSE <<Head(s)>>) \o Replace(Tail(s), old, new)

\* get_target_file_name with the spaces taken out of the name alone.
get_target_file_name_StripsNameOnly(app_name, app_version) ==
    Replace(Lower(app_name), " ", <<>>) \o <<"_">>
        \o Replace(app_version, ".", <<"_">>) \o <<".","a","p","k">>

\* Lines 142-144.
get_target_file_name(app_name, app_version) ==
    Replace(Lower(app_name) \o <<"_">> \o Replace(app_version, ".", <<"_">>)
                \o <<".","a","p","k">>,
            " ", <<>>)

InitName ==
    /\ fn = "get_target_file_name"
    /\ fn_in \in [app_name : AppNames, app_version : AppVersions]
    /\ fn_out = Running
    /\ fn_runs = 0

GetTargetFileName ==
    /\ fn = "get_target_file_name"
    /\ fn_runs = 0
    /\ fn_out' = Returned(get_target_file_name(fn_in.app_name, fn_in.app_version))
    /\ fn_runs' = 1
    /\ UNCHANGED <<fn, fn_in, uploadVars>>

-----------------------------------------------------------------------------
(* get_app *)

Missing == <<"Missing">>

ReleaseDirs == {<<"/","r","e","l">>, <<"r","/">>, <<>>}
VersionNames == {<<"1",".","0",".","3">>, <<"2">>}
OutputFiles == {<<"a","p","p",".","a","p","k">>, <<"/","a">>}

\* A JSON object under 'apkInfo' or 'apkData'; Missing marks an absent field.
Details == [versionName : VersionNames \cup {Missing},
            outputFile : OutputFiles \cup {Missing}]

NoDetails == [versionName |-> Missing, outputFile |-> Missing]

\* json_data[0]: its keys, and the objects under the two known keys.
Elements ==
    {[keys |-> ks, apkInfo |-> i, apkData |-> d] :
        ks \in SUBSET {"apkInfo", "apkData", "unknownKey"},
        i \in Details, d \in Details}

WellFormed(e) ==
    /\ "apkInfo" \notin e.keys => e.apkInfo = NoDetails
    /\ "apkData" \notin e.keys => e.apkData = NoDetails

JsonArrays == {<<>>} \cup {<<e>> : e \in {x \in Elements : WellFormed(x)}}

\* os.path.join(a, b)
Join(a, b) ==
    IF b # <<>> /\ Head(b) = "/" THEN b
    ELSE IF a = <<>> \/ a[Len(a)] = "/" THEN a \o b
    ELSE a \o <<"/">> \o b

\* get_app without the else branch: the lookup under '' raises.
get_app_NoSentinel(release_dir, json_data) ==
    IF json_data = <<>> THEN Raised("IndexError")
    ELSE LET apk_details_key ==
                 IF "apkInfo" \in json_data[1].keys THEN "apkInfo"
                 ELSE IF "apkData" \in json_data[1].keys THEN "apkData"
                 ELSE ""
         IN  IF apk_details_key = "" THEN Raised("KeyError")
             ELSE LET d == json_data[1][apk_details_key] IN
                  IF d.versionName = Missing \/ d.outputFile = Missing
                  THEN Raised("KeyError")
                  ELSE Returned(<<d.versionName, Join(release_dir, d.outputFile)>>)

\* Lines 115-126, on the array parsed from output.json.
get_app(release_dir, json_data) ==
    IF json_data = <<>> THEN Raised("IndexError")
    ELSE LET apk_details_key ==
                 IF "apkInfo" \in json_data[1].keys THEN "apkInfo"
                 ELSE IF "apkData" \in json_data[1].keys THEN "apkData"
                 ELSE ""
         IN  IF apk_details_key = "" THEN Returned(<<None, None>>)
             ELSE LET d == json_data[1][apk_details_key] IN
                  IF d.versionName = Missing \/ d.outputFile = Missing
                  THEN Raised("KeyError")
                  ELSE Returned(<<d.versionName, Join(release_dir, d.outputFile)>>)

InitApp ==
    /\ fn = "get_app"
    /\ fn_in \in [release_dir : ReleaseDirs, json_data : JsonArrays]
    /\ fn_out = Running
    /\ fn_runs = 0

GetApp ==
    /\ fn = "get_app"
    /\ fn_runs = 0
    /\ fn_out' = get_app(fn_in.release_dir, fn_in.json_data)
    /\ fn_runs' = 1
    /\ UNCHANGED <<fn, fn_in, uploadVars>>

-----------------------------------------------------------------------------
(* Specifications *)

InitFnIdle ==
    /\ fn = "none"
    /\ fn_in = <<>>
    /\ fn_out = Running
    /\ fn_runs = 0

Init == InitUpload /\ InitFnIdle

Next ==
    \/ Call
    \/ DeleteRequest
    \/ OpenFails
    \/ UploadRequest
    \/ ShareRequest

Spec == Init /\ [][Next]_vars

NextChanges ==
    \/ GetChanges
    \/ ReExtract

InitChangesSpec == InitUpload /\ InitChanges

SpecChanges == InitChangesSpec /\ [][NextChanges]_vars

NextName == GetTargetFileName

InitNameSpec == InitUpload /\ InitName

SpecName == InitNameSpec /\ [][NextName]_vars

NextApp == GetApp

InitAppSpec == InitUpload /\ InitApp

SpecApp == InitAppSpec /\ [][NextApp]_vars

-----------------------------------------------------------------------------
(* Properties of upload_to_dropbox, under Spec *)

Finished == pc = "idle" /\ ret # Running

HasSent(kind) == \E i \in 1..Len(sent) : sent[i].kind = kind

Status(kind) == sent[CHOOSE i \in 1..Len(sent) : sent[i].kind = kind].status

\* C1: once the upload response carries a status other than 200, the invocation
\* has returned None (it has not raised) and has posted no share request.
C1_UploadFailureReturnsNone ==
    (HasSent("upload") /\ Status("upload") # HTTP_OK) =>
        /\ Finished
        /\ ret = Returned(None)
        /\ ~HasSent("share")

C1_Witness ==
    /\ HasSent("upload")
    /\ Status("upload") = 500
    /\ ret = Returned(None)

\* C2: every request of an invocation carries the one path '/{folder}/{file_name}'
\* built from that invocation's own arguments, whatever earlier invocations used.
C2_OnePathPerInvocation ==
    \A i \in 1..Len(sent) :
        sent[i].path = <<"/">> \o dropbox_folder \o <<"/">> \o target_file_name

C2_Witness ==
    /\ Kinds(sent) = <<"delete", "upload", "share">>
    /\ \E p \in remote : p # sent[1].path /\ p[2] # dropbox_folder[1] /\ p[4] # target_file_name[1]

\* C3: the requests of an invocation are a prefix of delete, upload, share, each
\* at most once; after the delete response, whatever its status, control stands
\* at the upload, and an invocation that could open its source file never ends
\* without having posted the upload.
C3_DeleteUploadShareInOrder ==
    /\ Len(sent) <= 3
    /\ Kinds(sent) = SubSeq(<<"delete", "upload", "share">>, 1, Len(sent))
    /\ Len(sent) = 1 => (pc = "l81" \/ (~source_exists /\ ret = Raised("IOError")))
    /\ (Finished /\ source_exists) => HasSent("upload")

C3_Witness ==
    /\ Finished
    /\ Kinds(sent) = <<"delete", "upload", "share">>
    /\ sent[1].status = 409

\* C4: when the upload succeeded and the share response carries a status other
\* than 200, the invocation has returned None, the share request is the last
\* request it posted, and the uploaded file is still at the remote path.
C4_ShareFailureLeavesUpload ==
    (HasSent("share") /\ Status("share") # HTTP_OK) =>
        /\ Finished
        /\ ret = Returned(None)
        /\ Kinds(sent) = <<"delete", "upload", "share">>
        /\ Status("upload") = HTTP_OK
        /\ sent[2].path \in remote

C4_Witness ==
    /\ HasSent("share")
    /\ Status("share") = 409
    /\ ret = Returned(None)
    /\ sent[2].path \in remote

DlEq == <<"d", "l", "=">>
RawEq1 == <<"r", "a", "w", "=", "1">>

ShareSucceeded == HasSent("share") /\ Status("share") = HTTP_OK

C10_SourceReadBeforeRequests ==
    /\ sent # <<>> => source_opened
    /\ ret = Raised("IOError") => sent = <<>>

-----------------------------------------------------------------------------
(* Properties of get_changes, under SpecChanges *)

Applied == fn_runs >= 1 /\ fn_out.tag = "return"

\* The text before the first '##', stated without a scan: the prefix that holds
\* no '##' and is followed by '##' or by the end of the text.
SegmentBeforeDelimiter(t) ==
    CHOOSE p \in {Slice(t, 1, k) : k \in 0..Len(t)} :
        /\ ~Contains(<<"#", "#">>, p)
        /\ Len(p) = Len(t) \/ OccursAt(<<"#", "#">>, t, Len(p) + 1)

\* The position where the line holding position i of s starts.
LineStart(s, i) ==
    CHOOSE j \in 1..i :
        /\ j = 1 \/ s[j - 1] = "\n"
        /\ \A k \in j..(i - 1) : s[k] # "\n"

\* s without its lines that start with '#', stated position by position.
WithoutHeadingLines(s) ==
    LET kept == {i \in 1..Len(s) : s[LineStart(s, i)] # "#"} IN
    [n \in 1..Cardinality(kept) |->
        s[CHOOSE i \in kept : Cardinality({j \in kept : j <= i}) = n]]

\* No '##' and no line that starts with '#'.
AlreadyExtracted(s) ==
    /\ ~Contains(<<"#", "#">>, s)
    /\ \A i \in 1..Len(s) : s[i] = "#" => LineStart(s, i) # i

FixA == <<"F", "i", "x", " ", "A">>

\* C5 as stated: the result is the text before the first '##' without its
\* heading lines, and the example changelog yields 'Fix A\n'.
C5_FirstSegmentWithoutHeadings ==
    Applied =>
        /\ fn_out.val = WithoutHeadingLines(SegmentBeforeDelimiter(fn_in))
        /\ fn_in = ExampleChangelog => fn_out.val = FixA \o <<"\n">>

\* C5 as amended: the result is the text before the first '##', less its last
\* character, without its heading lines; the example changelog yields 'Fix A'.
C5_FirstSegmentLessLastChar ==
    Applied =>
        /\ fn_out.val = WithoutHeadingLines(DropLast(SegmentBeforeDelimiter(fn_in)))
        /\ fn_in = ExampleChangelog => fn_out.val = FixA

C5_Witness ==
    /\ Applied
    /\ fn_in = ExampleChangelog
    /\ fn_out.val = FixA

\* C6 as stated: on a text with no '##' and no heading line, extraction returns
\* the text unchanged.
C6_ExtractionIsNoOp ==
    (Applied /\ AlreadyExtracted(fn_in)) => fn_out.val = fn_in

\* C6 as amended: on a text with no '##' and no heading line, extraction returns
\* the text less its last character; every result of extraction is such a text,
\* so extracting it again drops its last character, a no-op on the empty text only.
C6_ExtractionDropsLastChar ==
    Applied =>
        /\ AlreadyExtracted(fn_out.val)
        /\ fn_runs >= 2 => AlreadyExtracted(fn_in)
        /\ AlreadyExtracted(fn_in) =>
             /\ fn_out.val = Slice(fn_in, 1, Len(fn_in) - 1)
             /\ fn_out.val = fn_in <=> fn_in = <<>>

C6_Witness ==
    /\ Applied
    /\ fn_runs = 2
    /\ fn_in = <<"a", "#", "a">>
    /\ fn_out.val = <<"a", "#">>

-----------------------------------------------------------------------------
(* Properties of get_target_file_name, under SpecName *)

DotApk == <<".", "a", "p", "k">>

Count(c, s) == Cardinality({i \in 1..Len(s) : s[i] = c})

NoSpaces(s) == SelectSeq(s, LAMBDA c : c # " ")

DotsReplaced(v) ==
    LET r == Replace(v, ".", <<"_">>) IN
    /\ Len(r) = Len(v)
    /\ Cardinality({i \in 1..Len(v) : r[i] # v[i]}) = Count(".", v)
    /\ \A i \in 1..Len(v) : r[i] # v[i] => (v[i] = "." /\ r[i] = "_")
    /\ Count(".", r) = 0

ComposedName(name, v) ==
    NoSpaces(Lower(name)) \o <<"_">>
        \o NoSpaces([i \in 1..Len(v) |-> IF v[i] = "." THEN "_" ELSE v[i]])
        \o DotApk

\* C7 as stated: exactly N characters of the version are replaced, and the result
\* holds no space and exactly one '.apk', at its end.
C7_ExactlyOneDotApk ==
    Applied =>
        /\ DotsReplaced(fn_in.app_version)
        /\ Count(" ", fn_out.val) = 0
        /\ EndsWith(fn_out.val, DotApk)
        /\ Cardinality(Occurrences(DotApk, fn_out.val)) = 1
        /\ fn_out.val = ComposedName(fn_in.app_name, fn_in.app_version)

\* C7 as amended: exactly N characters of the version are replaced, the result
\* holds no space and ends in '.apk', and it holds one '.apk' more than the
\* lower-cased app name with its spaces removed holds.
C7_DotApkSuffix ==
    Applied =>
        /\ DotsReplaced(fn_in.app_version)
        /\ Count(" ", fn_out.val) = 0
        /\ EndsWith(fn_out.val, DotApk)
        /\ Cardinality(Occurrences(DotApk, fn_out.val)) =
             1 + Cardinality(Occurrences(DotApk, NoSpaces(Lower(fn_in.app_name))))
        /\ fn_out.val = ComposedName(fn_in.app_name, fn_in.app_version)

C7_Witness ==
    /\ Applied
    /\ fn_in.app_name = <<"A", " ", "p">>
    /\ fn_in.app_version = <<".", " ">>
    /\ fn_out.val = <<"a", "p", "_", "_", ".", "a", "p", "k">>

-----------------------------------------------------------------------------
(* Properties of get_app, under SpecApp *)

Rel == <<"/", "r", "e", "l">>
AppApk == <<"a", "p", "p", ".", "a", "p", "k">>
V103 == <<"1", ".", "0", ".", "3">>

Complete(d) == d.versionName # Missing /\ d.outputFile # Missing

\* The release directory joined with a file, by cases.
Joined(dir, file, path) ==
    /\ Head(file) = "/" => path = file
    /\ (Head(file) # "/" /\ dir = <<>>) => path = file
    /\ (Head(file) # "/" /\ dir # <<>> /\ dir[Len(dir)] = "/") => path = dir \o file
    /\ (Head(file) # "/" /\ dir # <<>> /\ dir[Len(dir)] # "/") =>
         path = dir \o <<"/">> \o file

ReturnsDetails(dir, d) ==
    /\ fn_out.tag = "return"
    /\ fn_out.val[1] = d.versionName
    /\ Joined(dir, d.outputFile, fn_out.val[2])

\* C8: with neither 'apkInfo' nor 'apkData' in the first element, get_app returns
\* (None, None) and does not raise; with 'apkInfo', or else 'apkData', it returns
\* that key's versionName and the release directory joined with its outputFile.
C8_SentinelOrDetails ==
    (fn_runs >= 1 /\ fn_in.json_data # <<>>) =>
        LET e == fn_in.json_data[1] IN
        /\ ("apkInfo" \notin e.keys /\ "apkData" \notin e.keys) =>
             fn_out = Returned(<<None, None>>)
        /\ ("apkInfo" \in e.keys /\ Complete(e.apkInfo)) =>
             ReturnsDetails(fn_in.release_dir, e.apkInfo)
        /\ ("apkInfo" \notin e.keys /\ "apkData" \in e.keys /\ Complete(e.apkData)) =>
             ReturnsDetails(fn_in.release_dir, e.apkData)
        /\ (fn_in.release_dir = Rel /\ e.keys = {"apkInfo"}
                /\ e.apkInfo = [versionName |-> V103, outputFile |-> AppApk]) =>
             fn_out = Returned(<<V103, Rel \o <<"/">> \o AppApk>>)

C8_Witness ==
    /\ fn_runs >= 1
    /\ fn_in.json_data # <<>>
    /\ fn_in.json_data[1].keys = {"unknownKey"}
    /\ fn_out = Returned(<<None, None>>)

=============================================================================
